---- MODULE Spec2Model ----
(***************************************************************************)
(* Model of the confirmation-code delivery pipeline of server.js:          *)
(* the in-memory rate limiter (sendAttempts), the sender with bounded      *)
(* retries (retrySend), the failure queue (FAILED_QUEUE) with the          *)
(* setInterval worker that drains it, and the POST /send-code handler.     *)
(*                                                                         *)
(* JavaScript runs a callback to its next await without interleaving, so   *)
(* one action is one such run: from the arrival of a request to the first  *)
(* transporter.sendMail call, from the settling of a sendMail promise to   *)
(* the next await (or to the end of the caller), from the firing of a      *)
(* setTimeout to the next sendMail call, and one setInterval callback up   *)
(* to its first await.                                                     *)
(*                                                                         *)
(* Time is Date.now() in milliseconds, counted from the start of the       *)
(* process.  Timers (the backoff of retrySend, the period of the worker)   *)
(* fire at some moment after they are set; the model lets them fire at any *)
(* step and records the delay that was asked for.                          *)
(***************************************************************************)
EXTENDS Integers, Sequences, FiniteSets, Bags, TLC

\* ---------------------------------------------------------------- bounds
MaxInstant == 2    \* the clock is read at 0, WINDOW_MS - 1, WINDOW_MS, 2 * WINDOW_MS - 1, ...
MaxAdmitted == 2   \* Spec: requests admitted past the rate limiter
MaxInFlight == 2   \* Spec: retrySend invocations awaiting at the same time
LimAdmitted == 4   \* SpecLimiter: requests admitted past the rate limiter
LimInFlight == 3   \* SpecLimiter: retrySend invocations awaiting at the same time
ValAdmitted == 1   \* SpecValidation: requests admitted past the rate limiter
ValInFlight == 1   \* SpecValidation: retrySend invocations awaiting at the same time
LiveAdmitted == 2  \* SpecLive: requests admitted past the rate limiter
LiveInFlight == 2  \* SpecLive: retrySend invocations awaiting at the same time

\* ------------------------------------------------------- program constants
MAX_ATTEMPTS == 3
WINDOW_MS == 15 * 60 * 1000
RETRY_LIMIT == 3
delays_Swapped == <<3000, 1000, 7000>>

\* line 61
delays == <<1000, 3000, 7000>>

\* ------------------------------------------------------------ input values
\* req.body.email is any truthy JSON value and req.ip any string: nothing
\* keeps an email from being spelled like an address ("10.0.0.1" is both).
\* "" stands for a missing or empty field (falsy in JavaScript).
Emails == {"a@x.io", "10.0.0.1"}
Ips == {"10.0.0.1", "10.0.0.2"}
Keys == Emails \cup Ips
Usernames == {"bob"}
Codes == {"123456"}
Missing == ""

VARIABLES
  env,           \* process.env: which of SMTP_HOST, SMTP_USER, SMTP_PASS are set
  now,           \* Date.now()
  sendAttempts,  \* Map key -> array of timestamps (absent key = empty array)
  FAILED_QUEUE,  \* array of { email, username, code, attempts }
  tasks,         \* the retrySend invocations in flight, each with its caller (a bag)
  log,           \* history: the admitted requests [email, ip, t] (a bag)
  denied,        \* history: the <<email, ip>> of the request answered 429 last
  last           \* history: the step taken last (request and response, tick, ...)

vars == <<env, now, sendAttempts, FAILED_QUEUE, tasks, log, denied, last>>

Min(a, b) == IF a < b THEN a ELSE b

SMTP_CONFIGURED_HostOnly == env.SMTP_HOST

\* line 17
SMTP_CONFIGURED == env.SMTP_HOST /\ env.SMTP_USER /\ env.SMTP_PASS

\* --------------------------------------------------------- rate limiter
Live_Closed(arr, t) == SelectSeq(arr, LAMBDA x : t - x <= WINDOW_MS)

\* arr.filter(t => now - t < WINDOW_MS)
Live(arr, t) == SelectSeq(arr, LAMBDA x : t - x < WINDOW_MS)

cleanupAttempts_NoPurge(sa, key, t) == sa

\* cleanupAttempts(key): the map after the call; the value returned is its entry for key
cleanupAttempts(sa, key, t) == [sa EXCEPT ![key] = Live(sa[key], t)]

recordAttempt_NoPush(sa, key, t) == cleanupAttempts(sa, key, t)

\* recordAttempt(key): the map after the call
recordAttempt(sa, key, t) ==
  LET c == cleanupAttempts(sa, key, t)
  IN  [c EXCEPT ![key] = Append(c[key], t)]

canSend_OffByOne(sa, key, t) == Len(cleanupAttempts(sa, key, t)[key]) <= MAX_ATTEMPTS

\* canSend(key): the value returned
canSend(sa, key, t) == Len(cleanupAttempts(sa, key, t)[key]) < MAX_ATTEMPTS

Admissible_EmailOnly(sa, email, ip, t) == canSend(sa, email, t)

\* the negation of line 115's condition, !canSend(email) || !canSend(ip)
Admissible(sa, email, ip, t) ==
  canSend(sa, email, t) /\ canSend(cleanupAttempts(sa, email, t), ip, t)

AfterCheck_Records(sa, email, ip, t) ==
  IF canSend(sa, email, t)
  THEN recordAttempt(cleanupAttempts(sa, email, t), ip, t)
  ELSE recordAttempt(sa, email, t)

\* the map after line 115's condition was evaluated: || short-circuits, so
\* canSend(ip) runs (and purges ip) only if canSend(email) held
AfterCheck(sa, email, ip, t) ==
  IF canSend(sa, email, t)
  THEN cleanupAttempts(cleanupAttempts(sa, email, t), ip, t)
  ELSE cleanupAttempts(sa, email, t)

\* recordAttempt(email); recordAttempt(ip), lines 119-120
AfterRecord(sa, email, ip, t) == recordAttempt(recordAttempt(sa, email, t), ip, t)

\* --------------------------------------------------------------- records
\* a queued item { email, username, code, attempts }; fails (the worker
\* cycles that failed for it) and sent (the sendMail calls made for its
\* request by the invocations that have returned) are history
Item(email, username, code) ==
  [email |-> email, username |-> username, code |-> code, attempts |-> 0, fails |-> 0,
   sent |-> 0]

NoItem == Item(Missing, Missing, Missing)

\* a retrySend invocation at its first sendMail call; sends (the sendMail
\* calls it has made) is history
Task(kind, item) ==
  [kind |-> kind, item |-> item, attempt |-> 0, pc |-> "send", delay |-> 0, sends |-> 1]

\* the label of a step: ev names the action and result what it did; a
\* request step carries the request (item, ip), a retrySend step the
\* invocation's caller (kind), item and number of sendMail calls (sends)
Event(ev, result, kind, item, ip, sends) ==
  [ev |-> ev, result |-> result, kind |-> kind, item |-> item, ip |-> ip, sends |-> sends]

Init ==
  /\ env \in [{"SMTP_HOST", "SMTP_USER", "SMTP_PASS"} -> BOOLEAN]
  /\ now = 0
  /\ sendAttempts = [k \in Keys |-> <<>>]
  /\ FAILED_QUEUE = <<>>
  /\ tasks = EmptyBag
  /\ log = EmptyBag
  /\ denied = <<>>
  /\ last = Event("none", "none", "none", NoItem, Missing, 0)

\* ------------------------------------------------------------------ clock
Advance(d) ==
  /\ d > 0
  /\ now' = now + d
  /\ last' = Event("clock", "advanced", "none", NoItem, Missing, 0)
  /\ UNCHANGED <<env, sendAttempts, FAILED_QUEUE, tasks, log, denied>>

\* ------------------------------------------------- POST /send-code, 103-131
Valid_NoUsername(email, username, code) == email # Missing /\ code # Missing

\* the negation of line 105's condition
Valid(email, username, code) == email # Missing /\ code # Missing /\ username # Missing

Request(email, username, code, ip) ==
  LET item == Item(email, username, code) IN
  IF ~Valid(email, username, code)
  THEN /\ last' = Event("request", "400", "handler", item, ip, 0)
       /\ UNCHANGED <<env, now, sendAttempts, FAILED_QUEUE, tasks, log, denied>>
  ELSE IF ~SMTP_CONFIGURED
  THEN /\ last' = Event("request", "simulated", "handler", item, ip, 0)
       /\ UNCHANGED <<env, now, sendAttempts, FAILED_QUEUE, tasks, log, denied>>
  ELSE IF ~Admissible(sendAttempts, email, ip, now)
  THEN /\ last' = Event("request", "429", "handler", item, ip, 0)
       /\ sendAttempts' = AfterCheck(sendAttempts, email, ip, now)
       /\ denied' = <<email, ip>>
       /\ UNCHANGED <<env, now, FAILED_QUEUE, tasks, log>>
  ELSE /\ last' = Event("request", "admitted", "handler", item, ip, 1)
       /\ sendAttempts' = AfterRecord(AfterCheck(sendAttempts, email, ip, now), email, ip, now)
       /\ tasks' = tasks (+) SetToBag({Task("handler", item)})
       /\ log' = log (+) SetToBag({[email |-> email, ip |-> ip, t |-> now]})
       /\ UNCHANGED <<env, now, FAILED_QUEUE, denied>>

\* ------------------------------------------------------ retrySend, 59-73
QueueAfter_Stale(q, task, ok) ==
  IF ok THEN q
  ELSE IF task.kind = "handler"
  THEN <<[task.item EXCEPT !.attempts = 0, !.sent = @ + task.sends]>>
  ELSE <<[task.item EXCEPT !.attempts = @ + 1, !.fails = @ + 1,
                           !.sent = @ + task.sends]>>

QueueAfter_Front(q, task, ok) ==
  IF ok THEN q
  ELSE IF task.kind = "handler"
  THEN <<[task.item EXCEPT !.attempts = 0, !.sent = @ + task.sends]>> \o q
  ELSE <<[task.item EXCEPT !.attempts = @ + 1, !.fails = @ + 1,
                           !.sent = @ + task.sends]>> \o q

QueueAfter_SameCount(q, task, ok) ==
  IF ok THEN q
  ELSE IF task.kind = "handler"
  THEN Append(q, [task.item EXCEPT !.attempts = 0, !.sent = @ + task.sends])
  ELSE Append(q, [task.item EXCEPT !.fails = @ + 1, !.sent = @ + task.sends])

\* what the caller does with the queue once retrySend has returned:
\* the handler (lines 132-139) queues a new item on failure,
\* the worker (lines 95-97) queues the item again on failure
QueueAfter(q, task, ok) ==
  IF ok THEN q
  ELSE IF task.kind = "handler"
  THEN Append(q, [task.item EXCEPT !.attempts = 0, !.sent = @ + task.sends])
  ELSE Append(q, [task.item EXCEPT !.attempts = @ + 1, !.fails = @ + 1,
                                   !.sent = @ + task.sends])

Outcome_Unhandled(task, ok) ==
  IF ok THEN IF task.kind = "handler" THEN "Delivered" ELSE "redelivered"
  ELSE "unhandled"

\* how the caller ends: the handler answers 200 (line 134) or 202 (line 138),
\* the worker discards the item or queues it again
Outcome(task, ok) ==
  IF task.kind = "handler"
  THEN IF ok THEN "Delivered" ELSE "Queued"
  ELSE IF ok THEN "redelivered" ELSE "requeued"

SendOk_LoopsOn(task) ==
  /\ task.pc = "send"
  /\ tasks' = (tasks (-) SetToBag({task})) (+) SetToBag({[task EXCEPT !.sends = @ + 1]})
  /\ FAILED_QUEUE' = QueueAfter(FAILED_QUEUE, task, TRUE)
  /\ last' = Event("sendOk", Outcome(task, TRUE), task.kind, task.item, Missing, task.sends)
  /\ UNCHANGED <<env, now, sendAttempts, log, denied>>

\* await transporter.sendMail(mailOptions) resolves: return { ok: true, info }
SendOk(task) ==
  /\ task.pc = "send"
  /\ tasks' = tasks (-) SetToBag({task})
  /\ FAILED_QUEUE' = QueueAfter(FAILED_QUEUE, task, TRUE)
  /\ last' = Event("sendOk", Outcome(task, TRUE), task.kind, task.item, Missing, task.sends)
  /\ UNCHANGED <<env, now, sendAttempts, log, denied>>

Exhausted_OneMore(attempt) == attempt > RETRY_LIMIT

\* line 68
Exhausted(attempt) == attempt >= RETRY_LIMIT

Backoff_NextDelay(attempt) == delays[Min(attempt, Len(delays) - 1) + 1]

\* delays[Math.min(attempt-1, delays.length-1)], line 69 (arrays count from 0)
Backoff(attempt) == delays[Min(attempt - 1, Len(delays) - 1) + 1]

\* await transporter.sendMail(mailOptions) rejects: the catch of lines 66-70
SendFail(task) ==
  /\ task.pc = "send"
  /\ LET attempt == task.attempt + 1 IN
     IF Exhausted(attempt)
     THEN /\ tasks' = tasks (-) SetToBag({task})
          /\ FAILED_QUEUE' = QueueAfter(FAILED_QUEUE, task, FALSE)
          /\ last' = Event("sendFail", Outcome(task, FALSE), task.kind, task.item,
                           Missing, task.sends)
     ELSE /\ tasks' = (tasks (-) SetToBag({task})) (+)
                      SetToBag({[task EXCEPT !.attempt = attempt, !.pc = "delay",
                                   !.delay = Backoff(attempt)]})
          /\ FAILED_QUEUE' = FAILED_QUEUE
          /\ last' = Event("sendFail", "retry", task.kind, task.item, Missing, task.sends)
  /\ UNCHANGED <<env, now, sendAttempts, log, denied>>

\* the setTimeout of line 69 fires: the loop calls sendMail again
TimerFire(task) ==
  /\ task.pc = "delay"
  /\ tasks' = (tasks (-) SetToBag({task})) (+)
              SetToBag({[task EXCEPT !.pc = "send", !.delay = 0, !.sends = @ + 1]})
  /\ last' = Event("timer", "send", task.kind, task.item, Missing, task.sends + 1)
  /\ UNCHANGED <<env, now, sendAttempts, FAILED_QUEUE, log, denied>>

\* ------------------------------------------- setInterval callback, 76-94
\* what the worker starts for the item it took: retrySend(mail), line 94
WorkerSend(item) == Task("worker", item)

Drop_Late(attempts) == attempts > RETRY_LIMIT

Drop_Early(attempts) == attempts >= RETRY_LIMIT - 1

\* line 82
Drop(attempts) == attempts >= RETRY_LIMIT

WorkerTick_Recycle ==
  IF ~SMTP_CONFIGURED
  THEN /\ last' = Event("tick", "simulation", "worker", NoItem, Missing, 0)
       /\ UNCHANGED <<env, now, sendAttempts, FAILED_QUEUE, tasks, log, denied>>
  ELSE IF Len(FAILED_QUEUE) = 0
  THEN /\ last' = Event("tick", "empty", "worker", NoItem, Missing, 0)
       /\ UNCHANGED <<env, now, sendAttempts, FAILED_QUEUE, tasks, log, denied>>
  ELSE LET item == Head(FAILED_QUEUE) IN
       IF Drop(item.attempts)
       THEN /\ FAILED_QUEUE' = Append(Tail(FAILED_QUEUE), item)
            /\ last' = Event("tick", "drop", "worker", item, Missing, 0)
            /\ UNCHANGED <<env, now, sendAttempts, tasks, log, denied>>
       ELSE /\ FAILED_QUEUE' = Tail(FAILED_QUEUE)
            /\ tasks' = tasks (+) SetToBag({WorkerSend(item)})
            /\ last' = Event("tick", "send", "worker", item, Missing, 1)
            /\ UNCHANGED <<env, now, sendAttempts, log, denied>>

WorkerTick ==
  IF ~SMTP_CONFIGURED
  THEN /\ last' = Event("tick", "simulation", "worker", NoItem, Missing, 0)
       /\ UNCHANGED <<env, now, sendAttempts, FAILED_QUEUE, tasks, log, denied>>
  ELSE IF Len(FAILED_QUEUE) = 0
  THEN /\ last' = Event("tick", "empty", "worker", NoItem, Missing, 0)
       /\ UNCHANGED <<env, now, sendAttempts, FAILED_QUEUE, tasks, log, denied>>
  ELSE LET item == Head(FAILED_QUEUE) IN
       IF Drop(item.attempts)
       THEN /\ FAILED_QUEUE' = Tail(FAILED_QUEUE)
            /\ last' = Event("tick", "drop", "worker", item, Missing, 0)
            /\ UNCHANGED <<env, now, sendAttempts, tasks, log, denied>>
       ELSE /\ FAILED_QUEUE' = Tail(FAILED_QUEUE)
            /\ tasks' = tasks (+) SetToBag({WorkerSend(item)})
            /\ last' = Event("tick", "send", "worker", item, Missing, 1)
            /\ UNCHANGED <<env, now, sendAttempts, log, denied>>

\* --------------------------------------------------------- specifications
\* the request gets past lines 105, 109 and 115 and calls retrySend
Starts(email, username, code, ip) ==
  Valid(email, username, code) /\ SMTP_CONFIGURED /\ Admissible(sendAttempts, email, ip, now)

Instants == {((n + 1) \div 2) * WINDOW_MS - (n % 2) : n \in 0..MaxInstant}

\* the whole pipeline, for valid requests of one recipient and one caller
Next ==
  \/ \E t \in Instants : Advance(t - now)
  \/ \E email \in {"a@x.io"}, username \in Usernames, code \in Codes, ip \in {"10.0.0.2"} :
       /\ Starts(email, username, code, ip)
            => BagCardinality(log) < MaxAdmitted /\ BagCardinality(tasks) < MaxInFlight
       /\ Request(email, username, code, ip)
  \/ \E task \in BagToSet(tasks) : SendOk(task)
  \/ \E task \in BagToSet(tasks) : SendFail(task)
  \/ \E task \in BagToSet(tasks) : TimerFire(task)
  \/ /\ (FAILED_QUEUE # <<>> /\ ~Drop(Head(FAILED_QUEUE).attempts))
          => BagCardinality(tasks) < MaxInFlight
     /\ WorkerTick

Spec == Init /\ [][Next]_vars

\* the rate limiter under load: every recipient and caller, concurrent
\* requests, a configured transport whose sends succeed
InitLimiter == Init /\ SMTP_CONFIGURED

NextLimiter ==
  \/ \E t \in Instants : Advance(t - now)
  \/ \E email \in Emails, username \in Usernames, code \in Codes, ip \in Ips :
       /\ Starts(email, username, code, ip)
            => BagCardinality(log) < LimAdmitted /\ BagCardinality(tasks) < LimInFlight
       /\ Request(email, username, code, ip)
  \/ \E task \in BagToSet(tasks) : SendOk(task)

SpecLimiter == InitLimiter /\ [][NextLimiter]_vars

\* the whole pipeline, for every request body: each field present or missing
NextValidation ==
  \/ \E t \in Instants : Advance(t - now)
  \/ \E email \in {"a@x.io", Missing}, username \in Usernames \cup {Missing},
        code \in Codes \cup {Missing}, ip \in {"10.0.0.2"} :
       /\ Starts(email, username, code, ip)
            => BagCardinality(log) < ValAdmitted /\ BagCardinality(tasks) < ValInFlight
       /\ Request(email, username, code, ip)
  \/ \E task \in BagToSet(tasks) : SendOk(task)
  \/ \E task \in BagToSet(tasks) : SendFail(task)
  \/ \E task \in BagToSet(tasks) : TimerFire(task)
  \/ /\ (FAILED_QUEUE # <<>> /\ ~Drop(Head(FAILED_QUEUE).attempts))
          => BagCardinality(tasks) < ValInFlight
     /\ WorkerTick

SpecValidation == Init /\ [][NextValidation]_vars

\* the pipeline in normal mode as time goes on: the setInterval of line 101
\* keeps calling the worker, every sendMail promise settles (one way or the
\* other), every setTimeout of line 69 fires.  The clock is left out: it
\* decides nothing but the rate limit.
Arrive ==
  \E email \in {"a@x.io"}, username \in Usernames, code \in Codes, ip \in {"10.0.0.2"} :
    /\ Starts(email, username, code, ip)
         => BagCardinality(log) < LiveAdmitted /\ BagCardinality(tasks) < LiveInFlight
    /\ Request(email, username, code, ip)

Settle == \E task \in BagToSet(tasks) : SendOk(task) \/ SendFail(task)

Wake == \E task \in BagToSet(tasks) : TimerFire(task)

Tick ==
  /\ (FAILED_QUEUE # <<>> /\ ~Drop(Head(FAILED_QUEUE).attempts))
       => BagCardinality(tasks) < LiveInFlight
  /\ WorkerTick

NextLive == Arrive \/ Settle \/ Wake \/ Tick

InitLive == Init /\ SMTP_CONFIGURED

SpecLive ==
  /\ InitLive
  /\ [][NextLive]_vars
  /\ WF_vars(Settle) /\ WF_vars(Wake) /\ WF_vars(Tick)

\* ------------------------------------------------- terms of the properties
\* the timestamps of arr inside the window at time t (line 43: now - t < WINDOW_MS)
LiveCount(arr, t) == Cardinality({j \in DOMAIN arr : t - arr[j] < WINDOW_MS})

LiveSeq(arr, t) == SelectSeq(arr, LAMBDA x : x > t - WINDOW_MS)

Configured == env.SMTP_HOST /\ env.SMTP_USER /\ env.SMTP_PASS

\* the step taken is the handling of a request: last' is its label
RequestStep == last'.ev = "request"

ValidRequest(l) ==
  l.item.email # Missing /\ l.item.username # Missing /\ l.item.code # Missing

\* the admitted requests of the last WINDOW_MS that name key k as recipient or caller
AdmittedFor(k) ==
  LET rs == {r \in BagToSet(log) : (r.email = k \/ r.ip = k) /\ now - r.t < WINDOW_MS}
  IN  BagCardinality([r \in rs |-> log[r]])

Workers(b) == {t \in BagToSet(b) : t.kind = "worker"}

\* the number of worker cycles awaiting retrySend, each holding one item
Cycles(b) == BagCardinality([t \in Workers(b) |-> b[t]])

\* the items that are in the queue or held by a worker cycle
Held(q, b) == Len(q) + Cycles(b)

\* the number of handlers awaiting retrySend
Pending(b) == BagCardinality(b) - BagCardinality([t \in Workers(b) |-> b[t]])

\* ----------------------------------------------------------------- claims
\* C1: in normal mode, at every moment and for every key (recipient address
\* or caller identity), at most MAX_ATTEMPTS = 3 of the requests admitted in
\* the last 15 minutes name that key, whatever the interleaving of the
\* requests and of their sends: a request arriving when its key has 3 is
\* answered 429, because the check and the recording precede the first send.
C1_RateLimit == \A k \in Keys : AdmittedFor(k) <= MAX_ATTEMPTS

\* a 4th request for a recipient is answered 429 while the three admitted
\* ones all still await their first send
C1_Witness ==
  /\ last.ev = "request" /\ last.result = "429"
  /\ last.item.email = "a@x.io" /\ last.ip = "10.0.0.2"
  /\ BagCardinality(log) = 3 /\ AdmittedFor("a@x.io") = 3
  /\ BagCardinality(tasks) = 3
  /\ \A t \in BagToSet(tasks) : t.pc = "send" /\ t.sends = 1 /\ t.item.email = "a@x.io"

\* C2: throttling ends: expired timestamps are purged before the decision
\* and never count, so a valid request whose two keys have fewer than 3
\* timestamps inside the window is admitted, also after the key was
\* answered 429; after the decision the recipient key holds live timestamps only.
C2_NotPermanent ==
  [][(RequestStep /\ ValidRequest(last') /\ Configured) =>
       LET e == last'.item.email
           i == last'.ip
       IN  /\ (LiveCount(sendAttempts[e], now) < MAX_ATTEMPTS
               /\ LiveCount(sendAttempts[i], now) < MAX_ATTEMPTS)
                 => last'.result = "admitted"
           /\ \A j \in DOMAIN sendAttempts'[e] : now - sendAttempts'[e][j] < WINDOW_MS
           /\ last'.result = "admitted"
                 => \A j \in DOMAIN sendAttempts'[i] : now - sendAttempts'[i][j] < WINDOW_MS]_vars

\* a recipient and caller that were answered 429 are admitted again once
\* the three earlier attempts have left the window
C2_Witness ==
  /\ last.ev = "request" /\ last.result = "admitted"
  /\ last.item.email = "a@x.io" /\ last.ip = "10.0.0.2"
  /\ denied = <<"a@x.io", "10.0.0.2">>
  /\ BagCardinality(log) = 4 /\ AdmittedFor("a@x.io") = 1
  /\ \A r \in BagToSet(log) : r.email = "a@x.io" /\ r.ip = "10.0.0.2"

\* C3: in normal mode a valid request proceeds to sending iff the recipient
\* key and the caller key both hold fewer than 3 live timestamps, else it is
\* answered 429 and starts nothing; an admitted request appends the current
\* time once to the recipient key and once to the caller key, and leaves the
\* other keys alone.
C3_Admission ==
  [][(RequestStep /\ ValidRequest(last') /\ Configured) =>
       LET e == last'.item.email
           i == last'.ip
           ok == /\ LiveCount(sendAttempts[e], now) < MAX_ATTEMPTS
                 /\ LiveCount(sendAttempts[i], now) < MAX_ATTEMPTS
       IN  /\ last'.result = IF ok THEN "admitted" ELSE "429"
           /\ ok => /\ Pending(tasks') = Pending(tasks) + 1
                    /\ BagCardinality(log') = BagCardinality(log) + 1
                    /\ IF e = i
                       THEN sendAttempts'[e] = LiveSeq(sendAttempts[e], now) \o <<now, now>>
                       ELSE /\ sendAttempts'[e] = Append(LiveSeq(sendAttempts[e], now), now)
                            /\ sendAttempts'[i] = Append(LiveSeq(sendAttempts[i], now), now)
                    /\ \A k \in Keys \ {e, i} : sendAttempts'[k] = sendAttempts[k]
           /\ ~ok => tasks' = tasks /\ log' = log]_vars

\* a request is answered 429 for its caller key alone: its recipient key is
\* under the limit
C3_Witness ==
  /\ last.ev = "request" /\ last.result = "429"
  /\ last.item.email = "a@x.io" /\ last.ip = "10.0.0.2"
  /\ LiveCount(sendAttempts["a@x.io"], now) < MAX_ATTEMPTS
  /\ LiveCount(sendAttempts["10.0.0.2"], now) = MAX_ATTEMPTS

\* C4: a request with recipient, displayName or code missing or empty is
\* answered 400 whichever fields are missing, in simulation and in normal
\* mode, and changes nothing: no attempt recorded, no send started, nothing
\* queued.
C4_Validation ==
  [][(RequestStep /\ ~ValidRequest(last')) =>
       /\ last'.result = "400"
       /\ UNCHANGED <<sendAttempts, FAILED_QUEUE, tasks, log>>]_vars

\* in normal mode, with a send in flight, a request without displayName is
\* answered 400
C4_Witness ==
  /\ Configured
  /\ last.ev = "request" /\ last.result = "400"
  /\ last.item.email # Missing /\ last.item.username = Missing /\ last.item.code # Missing
  /\ tasks # EmptyBag

\* C5: with SMTP_HOST, SMTP_USER or SMTP_PASS absent every valid request is
\* answered Delivered(simulated), no send is ever made, and neither a handler
\* nor a worker tick touches the queue or the attempts map.
C5_Simulation ==
  ~Configured =>
    /\ FAILED_QUEUE = <<>> /\ tasks = EmptyBag /\ log = EmptyBag
    /\ \A k \in Keys : sendAttempts[k] = <<>>
    /\ last.ev \in {"none", "clock", "request", "tick"}
    /\ (last.ev = "request" /\ ValidRequest(last)) => last.result = "simulated"
    /\ last.ev = "tick" => last.result = "simulation"

\* only the password is absent: a valid request is answered as simulated
C5_Witness ==
  /\ env.SMTP_HOST /\ env.SMTP_USER /\ ~env.SMTP_PASS
  /\ last.ev = "request" /\ last.result = "simulated" /\ ValidRequest(last)

\* C6: an admitted request is answered Delivered iff one of its at most
\* RETRY_LIMIT = 3 foreground sends succeeds, and then the queue is left as
\* it is; it is answered Queued iff its 3rd send fails, and then exactly one
\* item with its email, username and code and attempts = 0 is appended at
\* the tail of the queue; an earlier failure leaves the queue as it is.
C6_Foreground ==
  [][(last'.kind = "handler" /\ last'.ev \in {"sendOk", "sendFail"}) =>
       /\ last'.sends \in 1..RETRY_LIMIT
       /\ last'.ev = "sendOk" <=> last'.result = "Delivered"
       /\ last'.ev = "sendOk" => FAILED_QUEUE' = FAILED_QUEUE
       /\ last'.ev = "sendFail" =>
            IF last'.sends = RETRY_LIMIT
            THEN /\ last'.result = "Queued"
                 /\ FAILED_QUEUE' = Append(FAILED_QUEUE,
                      [email |-> last'.item.email, username |-> last'.item.username,
                       code |-> last'.item.code, attempts |-> 0, fails |-> 0,
                       sent |-> RETRY_LIMIT])
            ELSE /\ last'.result = "retry"
                 /\ FAILED_QUEUE' = FAILED_QUEUE
       /\ last'.result \in {"Delivered", "Queued"} <=> Pending(tasks') = Pending(tasks) - 1]_vars

\* the transport fails twice, then succeeds: Delivered after 3 sends, the
\* queue is empty
C6_Witness ==
  /\ last.ev = "sendOk" /\ last.kind = "handler" /\ last.result = "Delivered"
  /\ last.sends = 3
  /\ FAILED_QUEUE = <<>>

\* C7 as stated: once the worker has run 3 failed cycles for an item, the
\* item is out of the queue.
C7_GoneAfterThree ==
  \A j \in DOMAIN FAILED_QUEUE : FAILED_QUEUE[j].fails < RETRY_LIMIT

\* C7, amended: the n-th failed cycle puts the item back with attempts = n,
\* for n = 1, 2 and 3; a tick that takes an item with fewer than 3 failed
\* cycles starts a send for it, the tick that takes it after its 3rd failed
\* cycle (its 4th tick) removes it and starts no send; no item is sent for
\* or queued after more than 3 failed cycles.
C7_GoneAfterFour ==
  [][/\ \A j \in DOMAIN FAILED_QUEUE :
          FAILED_QUEUE[j].attempts = FAILED_QUEUE[j].fails /\ FAILED_QUEUE[j].fails <= RETRY_LIMIT
     /\ \A t \in Workers(tasks) :
          t.item.attempts = t.item.fails /\ t.item.fails < RETRY_LIMIT
     /\ (last'.ev = "tick" /\ Configured /\ FAILED_QUEUE # <<>>) =>
          /\ FAILED_QUEUE' = Tail(FAILED_QUEUE)
          /\ last'.item = Head(FAILED_QUEUE)
          /\ IF Head(FAILED_QUEUE).fails = RETRY_LIMIT
             THEN last'.result = "drop" /\ tasks' = tasks
             ELSE last'.result = "send" /\ BagCardinality(tasks') = BagCardinality(tasks) + 1
     /\ (last'.ev = "sendFail" /\ last'.kind = "worker" /\ last'.result = "requeued") =>
          FAILED_QUEUE' = Append(FAILED_QUEUE,
               [last'.item EXCEPT !.attempts = @ + 1, !.fails = @ + 1,
                                  !.sent = @ + RETRY_LIMIT])]_vars

\* the only request ever admitted was queued, failed 3 worker cycles and
\* has just been removed by a 4th tick
C7_Witness ==
  /\ last.ev = "tick" /\ last.result = "drop" /\ last.item.fails = 3
  /\ BagCardinality(log) = 1
  /\ FAILED_QUEUE = <<>> /\ tasks = EmptyBag

RelatedStamps(k, e, i) ==
  LET rel == {r \in BagToSet(log) : (r.email = e \/ r.ip = i) /\ now - r.t < WINDOW_MS}
  IN  BagCardinality([r \in {x \in rel : x.email = k} |-> log[r]])
      + BagCardinality([r \in {x \in rel : x.ip = k} |-> log[r]])

C9_Independent ==
  [][(RequestStep /\ ValidRequest(last') /\ Configured) =>
       LET e == last'.item.email
           i == last'.ip
       IN  last'.result = "admitted"
             <=> (RelatedStamps(e, e, i) < MAX_ATTEMPTS /\ RelatedStamps(i, e, i) < MAX_ATTEMPTS)]_vars

C11_Exhaustion ==
  [][/\ \A t \in BagToSet(tasks) : t.sends \in 1..RETRY_LIMIT /\ t.delay \in {0, 1000, 3000}
     /\ last'.ev = "sendFail" =>
          \E t \in BagToSet(tasks) :
            /\ t.pc = "send" /\ t.kind = last'.kind /\ t.item = last'.item
            /\ t.sends = last'.sends
            /\ IF t.sends = RETRY_LIMIT
               THEN /\ last'.result \in {"Queued", "requeued"}
                    /\ tasks' = tasks (-) SetToBag({t})
                    /\ Len(FAILED_QUEUE') = Len(FAILED_QUEUE) + 1
               ELSE /\ last'.result = "retry"
                    /\ FAILED_QUEUE' = FAILED_QUEUE
                    /\ tasks' = (tasks (-) SetToBag({t})) (+)
                         SetToBag({[t EXCEPT !.attempt = t.sends, !.pc = "delay",
                                      !.delay = IF t.sends = 1 THEN 1000 ELSE 3000]})
     /\ last'.ev = "timer" =>
          /\ last'.sends \in 2..RETRY_LIMIT
          /\ \E t \in BagToSet(tasks) :
               /\ t.pc = "delay" /\ t.sends = last'.sends - 1
               /\ t.delay = (IF t.sends = 1 THEN 1000 ELSE 3000)]_vars

\* a worker cycle's retrySend has failed 3 times and returned: its item is
\* queued again and no invocation is left
C11_Witness ==
  /\ last.ev = "sendFail" /\ last.kind = "worker" /\ last.result = "requeued"
  /\ last.sends = RETRY_LIMIT
  /\ tasks = EmptyBag /\ Len(FAILED_QUEUE) = 1

\* C12: the sends of one retrySend invocation come one after the other: of
\* the sends it has made, all but at most one are known to have failed, and
\* that one is in flight exactly when the invocation is not waiting; the
\* k+1-th send starts from the wait that followed the k-th failure and from
\* nowhere else; the first success ends the invocation (no later send);
\* the invocation returns a failure only when RETRY_LIMIT sends have failed.
C12_Sequential ==
  [][/\ \A t \in BagToSet(tasks) :
          /\ t.pc \in {"send", "delay"}
          /\ t.sends - t.attempt = (IF t.pc = "send" THEN 1 ELSE 0)
          /\ t.pc = "delay" => t.attempt \in 1..(RETRY_LIMIT - 1) /\ t.delay > 0
     /\ last'.ev = "timer" =>
          \E t \in BagToSet(tasks) :
            /\ t.pc = "delay" /\ t.attempt = last'.sends - 1 /\ t.sends = t.attempt
            /\ tasks' = (tasks (-) SetToBag({t})) (+)
                 SetToBag({[t EXCEPT !.pc = "send", !.delay = 0, !.sends = t.attempt + 1]})
     /\ last'.ev = "sendOk" =>
          \E t \in BagToSet(tasks) :
            /\ t.pc = "send" /\ t.sends = last'.sends /\ t.attempt = t.sends - 1
            /\ tasks' = tasks (-) SetToBag({t})
     /\ (last'.ev = "sendFail" /\ last'.result # "retry") =>
          \E t \in BagToSet(tasks) :
            /\ t.pc = "send" /\ t.attempt = RETRY_LIMIT - 1 /\ t.sends = RETRY_LIMIT
            /\ tasks' = tasks (-) SetToBag({t})
     /\ last'.ev \in {"clock", "request", "tick"} =>
          \A t \in BagToSet(tasks) : CopiesIn(t, tasks') >= CopiesIn(t, tasks)]_vars

\* a worker cycle's retrySend ends at its 2nd send, which succeeds after
\* the 1st failed, while another invocation is waiting
C12_Witness ==
  /\ last.ev = "sendOk" /\ last.kind = "worker" /\ last.sends = 2
  /\ \E t \in BagToSet(tasks) : t.pc = "delay"

\* C13: a worker cycle that took an item with attempts < RETRY_LIMIT holds
\* that item as it was in the queue; when its retrySend returns a failure
\* the item goes to the tail of the queue with attempts one greater and
\* email, username and code as they were; when it returns a success the
\* queue is left alone and the cycle is over; a failed send that retrySend
\* retries changes neither the queue nor the item held.
C13_Requeue ==
  [][/\ (last'.ev = "tick" /\ last'.result = "send") =>
          /\ Head(FAILED_QUEUE).attempts < RETRY_LIMIT
          /\ tasks' = tasks (+) SetToBag({[kind |-> "worker", item |-> Head(FAILED_QUEUE),
                                           attempt |-> 0, pc |-> "send", delay |-> 0,
                                           sends |-> 1]})
     /\ (last'.kind = "worker" /\ last'.ev \in {"sendOk", "sendFail", "timer"}) =>
          \E t \in Workers(tasks) :
            /\ t.item = last'.item
            /\ CopiesIn(t, tasks') = CopiesIn(t, tasks) - 1
            /\ IF last'.ev = "sendFail" /\ last'.result # "retry"
               THEN /\ last'.result = "requeued"
                    /\ Len(FAILED_QUEUE') = Len(FAILED_QUEUE) + 1
                    /\ SubSeq(FAILED_QUEUE', 1, Len(FAILED_QUEUE)) = FAILED_QUEUE
                    /\ LET back == FAILED_QUEUE'[Len(FAILED_QUEUE')]
                       IN  /\ back.attempts = t.item.attempts + 1
                           /\ back.email = t.item.email
                           /\ back.username = t.item.username
                           /\ back.code = t.item.code
                    /\ Workers(tasks') = Workers(tasks (-) SetToBag({t}))
               ELSE /\ FAILED_QUEUE' = FAILED_QUEUE
                    /\ last'.ev = "sendOk" =>
                         /\ last'.result = "redelivered"
                         /\ tasks' = tasks (-) SetToBag({t})
                    /\ last'.ev # "sendOk" =>
                         \E u \in Workers(tasks') :
                           u.item = t.item /\ CopiesIn(u, tasks') = CopiesIn(u, tasks) + 1]_vars

\* an item that failed one worker cycle fails a second one and goes behind
\* the item that waited in the queue, with attempts = 2
C13_Witness ==
  /\ last.ev = "sendFail" /\ last.kind = "worker" /\ last.result = "requeued"
  /\ last.item.attempts = 1
  /\ Len(FAILED_QUEUE) = 2
  /\ FAILED_QUEUE[1].attempts = 1 /\ FAILED_QUEUE[2].attempts = 2

\* C14: the queue changes in two ways only: a worker tick on a non-empty
\* queue takes its first item and nothing else (also when it drops that
\* item: the second item stays first and no send is started), and a handler
\* or worker whose retrySend failed puts one item behind all the others;
\* so the item a tick takes is the one queued longest.  A tick on an
\* empty queue changes nothing.
C14_Fifo ==
  [][/\ last'.ev = "tick" =>
          IF ~Configured \/ FAILED_QUEUE = <<>>
          THEN UNCHANGED <<sendAttempts, FAILED_QUEUE, tasks, log>>
          ELSE /\ FAILED_QUEUE' = Tail(FAILED_QUEUE)
               /\ last'.item = Head(FAILED_QUEUE)
               /\ last'.result = "drop" => tasks' = tasks
               /\ last'.result = "send" =>
                    /\ BagCardinality(tasks') = BagCardinality(tasks) + 1
                    /\ \E t \in Workers(tasks') :
                         /\ t.item = Head(FAILED_QUEUE)
                         /\ CopiesIn(t, tasks') = CopiesIn(t, tasks) + 1
     /\ last'.ev # "tick" =>
          \/ FAILED_QUEUE' = FAILED_QUEUE
          \/ /\ last'.ev = "sendFail" /\ last'.result \in {"Queued", "requeued"}
             /\ Len(FAILED_QUEUE') = Len(FAILED_QUEUE) + 1
             /\ SubSeq(FAILED_QUEUE', 1, Len(FAILED_QUEUE)) = FAILED_QUEUE
             /\ FAILED_QUEUE'[Len(FAILED_QUEUE')].email = last'.item.email]_vars

\* a tick drops the first item (3 failed cycles) and leaves the item queued
\* behind it, which has failed fewer cycles, first in the queue
C14_Witness ==
  /\ last.ev = "tick" /\ last.result = "drop"
  /\ Len(FAILED_QUEUE) = 1 /\ FAILED_QUEUE[1].attempts < RETRY_LIMIT
  /\ tasks = EmptyBag

\* C15: no item is lost or doubled, whatever the interleaving of handlers,
\* ticks and the sends of the worker cycles in flight (several at once when
\* a tick comes before the cycle of the tick before has returned): the
\* number of items in the queue or held by a worker cycle grows by one
\* exactly when a handler queues an item, shrinks by one exactly when a
\* cycle delivers its item or a tick drops one, and is otherwise unchanged;
\* a tick moves one item from the queue to a cycle, a failed cycle moves its
\* item from the cycle to the queue.
C15_NoLoss ==
  [][LET h  == Held(FAILED_QUEUE, tasks)
         h2 == Held(FAILED_QUEUE', tasks')
     IN  /\ h2 = h + (IF last'.ev = "sendFail" /\ last'.result = "Queued" THEN 1
                      ELSE IF last'.ev = "sendOk" /\ last'.result = "redelivered" THEN -1
                      ELSE IF last'.ev = "tick" /\ last'.result = "drop" THEN -1
                      ELSE 0)
         /\ (last'.ev = "tick" /\ last'.result = "send") =>
              /\ Len(FAILED_QUEUE') = Len(FAILED_QUEUE) - 1
              /\ Cycles(tasks') = Cycles(tasks) + 1
         /\ (last'.ev = "sendFail" /\ last'.result = "requeued") =>
              /\ Len(FAILED_QUEUE') = Len(FAILED_QUEUE) + 1
              /\ Cycles(tasks') = Cycles(tasks) - 1
         /\ last'.ev \in {"clock", "request", "timer"} \/ last'.result = "retry" =>
              /\ Len(FAILED_QUEUE') = Len(FAILED_QUEUE)
              /\ Cycles(tasks') = Cycles(tasks)]_vars

\* a tick starts a second worker cycle while the cycle of an earlier tick
\* is still inside its retrySend
C15_Witness ==
  /\ last.ev = "tick" /\ last.result = "send"
  /\ Cycles(tasks) = 2
  /\ \E t \in Workers(tasks) : t.sends >= 2

\* C16: in normal mode, with the worker ticking, every send returning and
\* every backoff timer firing, the pipeline comes to rest whatever the
\* sends return: once requests stop being admitted, the queue becomes empty
\* and stays empty, and no worker cycle holds an item: each item was
\* delivered or dropped.
C16_Drains == <>[](FAILED_QUEUE = <<>> /\ Cycles(tasks) = 0)

\* two items were queued, every send for them failed, and the tick that
\* drops the second one leaves the queue empty
C16_Witness ==
  /\ last.ev = "tick" /\ last.result = "drop"
  /\ BagCardinality(log) = 2
  /\ FAILED_QUEUE = <<>> /\ tasks = EmptyBag

\* the timestamps of arr from lo (excluded or included) up to t, in order
Within(arr, lo, t, closed) ==
  SelectSeq(arr, LAMBDA x : (IF closed THEN lo <= x ELSE lo < x) /\ x <= t)

\* what a valid request in normal mode leaves for its recipient key, given
\* the sequence cleanupAttempts(email) kept: that sequence, with the
\* current time appended when the request is admitted
Stored(kept, l, t) ==
  IF l.result = "admitted"
  THEN IF l.item.email = l.ip THEN kept \o <<t, t>> ELSE Append(kept, t)
  ELSE kept

\* C17 as stated: cleanupAttempts(key) keeps exactly the timestamps t with
\* now - WINDOW_MS <= t <= now, a timestamp exactly 15 minutes old included,
\* and stores what it kept.
C17_ClosedWindow ==
  [][(RequestStep /\ ValidRequest(last') /\ Configured) =>
       LET e == last'.item.email
       IN  sendAttempts'[e] = Stored(Within(sendAttempts[e], now - WINDOW_MS, now, TRUE), last', now)]_vars

\* C17, amended: cleanupAttempts(key) keeps exactly the timestamps t with
\* now - WINDOW_MS < t <= now, in their order, and stores what it kept for
\* the key: a timestamp exactly 15 minutes old is removed and no longer
\* counts, and what is stored holds live timestamps only.
C17_HalfOpenWindow ==
  [][(RequestStep /\ ValidRequest(last') /\ Configured) =>
       LET e == last'.item.email
       IN  /\ sendAttempts'[e] =
                Stored(Within(sendAttempts[e], now - WINDOW_MS, now, FALSE), last', now)
           /\ \A j \in DOMAIN sendAttempts'[e] :
                now - WINDOW_MS < sendAttempts'[e][j] /\ sendAttempts'[e][j] <= now]_vars

\* three requests for a recipient were admitted at time 0; a fourth arrives
\* exactly 15 minutes later and is admitted: the three timestamps are gone
C17_Witness ==
  /\ now = WINDOW_MS
  /\ last.ev = "request" /\ last.result = "admitted"
  /\ last.item.email = "a@x.io" /\ last.ip = "10.0.0.2"
  /\ BagCardinality(log) = 4
  /\ \A r \in BagToSet(log) : r.email = "a@x.io" /\ r.ip = "10.0.0.2" /\ r.t \in {0, WINDOW_MS}
  /\ sendAttempts["a@x.io"] = <<WINDOW_MS>>

\* C18: a request answered 429 starts no send, queues nothing and records
\* nothing: for every key the stored sequence is the one before or the one
\* before without its expired timestamps (the recipient key is always
\* purged, the keys of other requests are left alone), so the timestamps
\* that count for a key are the same before and after, whether the
\* recipient key, the caller key or both were at the limit.
C18_RejectedFrame ==
  [][(RequestStep /\ last'.result = "429") =>
       LET e == last'.item.email
           i == last'.ip
       IN  /\ UNCHANGED <<FAILED_QUEUE, tasks, log>>
           /\ sendAttempts'[e] = Within(sendAttempts[e], now - WINDOW_MS, now, FALSE)
           /\ sendAttempts'[i] \in {sendAttempts[i],
                                     Within(sendAttempts[i], now - WINDOW_MS, now, FALSE)}
           /\ \A k \in Keys \ {e, i} : sendAttempts'[k] = sendAttempts[k]
           /\ \A k \in Keys :
                /\ LiveCount(sendAttempts'[k], now) = LiveCount(sendAttempts[k], now)
                /\ Len(sendAttempts'[k]) <= Len(sendAttempts[k])]_vars

\* a request is answered 429 for its caller key alone; its recipient key,
\* which held one timestamp of 15 minutes before, is left empty
C18_Witness ==
  /\ last.ev = "request" /\ last.result = "429"
  /\ last.item.email = "a@x.io" /\ last.ip = "10.0.0.2"
  /\ \E r \in BagToSet(log) : r.email = "a@x.io" /\ now - r.t >= WINDOW_MS
  /\ sendAttempts["a@x.io"] = <<>>
  /\ LiveCount(sendAttempts["10.0.0.2"], now) = MAX_ATTEMPTS

\* C19: every item in the queue has attempts in 0..RETRY_LIMIT and every
\* item held by a worker cycle (a send was started for it) has attempts in
\* 0..RETRY_LIMIT - 1; the tick that takes an item with attempts >=
\* RETRY_LIMIT removes it, starts no send and puts nothing back, the tick
\* that takes an item with attempts < RETRY_LIMIT starts a send for it.
C19_AttemptRange ==
  [][/\ \A j \in DOMAIN FAILED_QUEUE : FAILED_QUEUE[j].attempts \in 0..RETRY_LIMIT
     /\ \A t \in Workers(tasks) : t.item.attempts \in 0..(RETRY_LIMIT - 1)
     /\ (last'.ev = "tick" /\ Configured /\ FAILED_QUEUE # <<>>) =>
          IF Head(FAILED_QUEUE).attempts >= RETRY_LIMIT
          THEN /\ last'.result = "drop"
               /\ tasks' = tasks
               /\ FAILED_QUEUE' = Tail(FAILED_QUEUE)
          ELSE /\ last'.result = "send"
               /\ Cycles(tasks') = Cycles(tasks) + 1
               /\ Len(FAILED_QUEUE') = Len(FAILED_QUEUE) - 1
     /\ (last'.ev = "sendFail" /\ last'.result = "Queued") =>
          FAILED_QUEUE'[Len(FAILED_QUEUE')].attempts = 0]_vars

\* the queue holds an item with attempts = RETRY_LIMIT while a worker cycle
\* holds another with attempts = RETRY_LIMIT - 1
C19_Witness ==
  /\ Len(FAILED_QUEUE) = 1 /\ FAILED_QUEUE[1].attempts = RETRY_LIMIT
  /\ \E t \in Workers(tasks) : t.item.attempts = RETRY_LIMIT - 1

\* the sendMail calls made so far for the request of an invocation
Total(t) == t.item.sent + t.sends

\* C20: the sendMail calls made for one admitted request, by its handler
\* and by the worker cycles for its item together, never exceed
\* RETRY_LIMIT + RETRY_LIMIT * RETRY_LIMIT = 12: at most 3 by the handler
\* and at most 3 by each of at most 3 cycles; and a send that succeeds is
\* the last one for its request: the invocation ends, its item is in no
\* queue and in no cycle, and sends are only made by invocations.
C20_TotalSends ==
  [][/\ \A t \in BagToSet(tasks) :
          /\ Total(t) <= RETRY_LIMIT + RETRY_LIMIT * RETRY_LIMIT
          /\ t.sends <= RETRY_LIMIT
          /\ t.kind = "handler" => t.item.sent = 0
          /\ t.kind = "worker" => t.item.fails < RETRY_LIMIT
                                  /\ t.item.sent <= RETRY_LIMIT * (1 + t.item.fails)
     /\ \A j \in DOMAIN FAILED_QUEUE :
          FAILED_QUEUE[j].sent <= RETRY_LIMIT + RETRY_LIMIT * RETRY_LIMIT
     /\ last'.ev = "sendOk" =>
          \E t \in BagToSet(tasks) :
            /\ t.pc = "send" /\ t.kind = last'.kind /\ t.item = last'.item
            /\ t.sends = last'.sends
            /\ tasks' = tasks (-) SetToBag({t})
            /\ FAILED_QUEUE' = FAILED_QUEUE
     /\ (last'.ev \in {"timer", "tick", "request"} /\ last'.sends > 0) =>
          \E t \in BagToSet(tasks') :
            /\ t.pc = "send" /\ t.sends = last'.sends /\ t.item = last'.item
            /\ CopiesIn(t, tasks') = CopiesIn(t, tasks) + 1
     /\ last'.ev \in {"clock", "sendFail"} \/ last'.sends = 0 =>
          \A t \in BagToSet(tasks') : t.pc = "send" => CopiesIn(t, tasks') <= CopiesIn(t, tasks)]_vars

\* the 12th sendMail call for a request is in flight: the 3rd send of the
\* 3rd worker cycle for its item
C20_Witness ==
  \E t \in Workers(tasks) :
    /\ t.pc = "send" /\ t.sends = RETRY_LIMIT /\ t.item.fails = RETRY_LIMIT - 1
    /\ Total(t) = RETRY_LIMIT + RETRY_LIMIT * RETRY_LIMIT
====
